---- MODULE Spec2Model ----
(***************************************************************************)
(* A model of the two command-line tools of the repository:                *)
(*   verilog_syntax_check.py  the lexical Verilog checker                  *)
(*   analog_interface.py      the port-list generator (process_data)       *)
(*                                                                         *)
(* Text is a TLA+ string; every matcher works on its characters            *)
(* (SubSeq / Len), the way the regular expressions of the source do.       *)
(***************************************************************************)
EXTENDS Integers, Sequences, FiniteSets, TLC

(***************************************************************************)
(* Bounds of the model.                                                    *)
(***************************************************************************)
\* A file's text is the concatenation of at most MaxChunks fragments.
MaxChunks == 3
\* The port table of the generator holds at most MaxRows rows.
MaxRows == 2
\* The runs checked for progress read a text of at most MaxFairChunks fragments.
MaxFairChunks == 2

(***************************************************************************)
(* Characters and string helpers (Python's str and re primitives).         *)
(***************************************************************************)
\* \w of the re module, restricted to ASCII.
WordChars ==
    {"a","b","c","d","e","f","g","h","i","j","k","l","m","n","o","p","q","r",
     "s","t","u","v","w","x","y","z","A","B","C","D","E","F","G","H","I","J",
     "K","L","M","N","O","P","Q","R","S","T","U","V","W","X","Y","Z",
     "0","1","2","3","4","5","6","7","8","9","_"}

\* \s of the re module, and the characters str.strip() removes.
SpaceChars == {" ", "\n", "\t", "\r", "\f"}

\* Body(v) for the value v of an expression, which is evaluated once however
\* often Body uses it.
With(value, Body(_)) == CHOOSE r \in {Body(v) : v \in {value}} : TRUE

\* The character at position i, "" outside the string.
At(s, i) == IF 1 <= i /\ i <= Len(s) THEN SubSeq(s, i, i) ELSE ""

\* The literal lit occurs in s at position i.
MatchAt(s, i, lit) ==
    /\ i >= 1
    /\ i + Len(lit) - 1 <= Len(s)
    /\ SubSeq(s, i, i + Len(lit) - 1) = lit

\* Python's  lit in s.
Contains(s, lit) == \E i \in 1..Len(s) : MatchAt(s, i, lit)

\* \b at position i: exactly one of the characters around it is a word character.
WordBoundary(s, i) == (At(s, i - 1) \in WordChars) # (At(s, i) \in WordChars)

\* The first position >= i whose character is not in set (Len(s)+1 if none):
\* where a greedy character-class run that starts at i ends.
RECURSIVE RunEnd(_, _, _)
RunEnd(s, i, set) ==
    IF i <= Len(s) /\ At(s, i) \in set THEN RunEnd(s, i + 1, set) ELSE i

\* The least element of a set of integers.
SetMin(S) == CHOOSE x \in S : \A y \in S : x <= y

\* The greatest element of a set of integers.
SetMax(S) == CHOOSE x \in S : \A y \in S : x >= y

\* The first position >= i where lit occurs, 0 if there is none.
IndexOf(s, lit, i) ==
    LET hits == {j \in i..Len(s) : MatchAt(s, j, lit)}
    IN  IF hits = {} THEN 0 ELSE SetMin(hits)

\* Python's str.count: occurrences counted left to right without overlap.
RECURSIVE CountFrom(_, _, _)
CountFrom(s, lit, i) ==
    With(IndexOf(s, lit, i), LAMBDA j :
         IF j = 0 THEN 0 ELSE 1 + CountFrom(s, lit, j + Len(lit)))

str_count(s, lit) == CountFrom(s, lit, 1)

\* Python's str.splitlines (line breaks "\n"): no empty last line is produced.
RECURSIVE SplitFrom(_, _)
SplitFrom(s, i) ==
    IF i > Len(s) THEN << >>
    ELSE With(IndexOf(s, "\n", i), LAMBDA nl :
              IF nl = 0 THEN << SubSeq(s, i, Len(s)) >>
              ELSE << SubSeq(s, i, nl - 1) >> \o SplitFrom(s, nl + 1))

splitlines(s) == SplitFrom(s, 1)

\* Python's str.strip().
RECURSIVE LastNonSpace(_, _)
LastNonSpace(s, j) ==
    IF j >= 1 /\ At(s, j) \in SpaceChars THEN LastNonSpace(s, j - 1) ELSE j

strip(s) ==
    With(RunEnd(s, 1, SpaceChars), LAMBDA a :
    With(LastNonSpace(s, Len(s)), LAMBDA b :
         IF a > b THEN "" ELSE SubSeq(s, a, b)))

\* The set of a sequence's elements.
Range(f) == {f[i] : i \in DOMAIN f}

NoMatch == [ok |-> FALSE, cap |-> "", end |-> 0]

(***************************************************************************)
(* The pattern matchers of verilog_syntax_check.py.  Each XMatch(s, p) is  *)
(* one attempt of re to match the pattern at position p: whether it        *)
(* matches, the captured group, and the position after the match.          *)
(* re.findall scans left to right and resumes after each match.            *)
(***************************************************************************)

\* r'\b(input|output)\b\s+(?:\[.*?\]\s+)?(\w+)' at position p.
\* The optional group is tried first; .*? stops at the first ']' of the line
\* that is followed by white space and a word, and the group is given up
\* when there is none.
RangeClose(s, j) ==
    With(IndexOf(s, "\n", j), LAMBDA nl :
    With({k \in j..(IF nl = 0 THEN Len(s) ELSE nl - 1) :
            /\ At(s, k) = "]"
            /\ RunEnd(s, k + 1, SpaceChars) > k + 1
            /\ At(s, RunEnd(s, k + 1, SpaceChars)) \in WordChars}, LAMBDA hits :
         IF hits = {} THEN 0 ELSE SetMin(hits)))

PortMatch(s, p) ==
    LET kw == IF MatchAt(s, p, "input") THEN "input"
              ELSE IF MatchAt(s, p, "output") THEN "output" ELSE ""
        a  == p + Len(kw)
    IN  IF kw = "" \/ ~WordBoundary(s, p) \/ ~WordBoundary(s, a) THEN NoMatch
        ELSE With(RunEnd(s, a, SpaceChars), LAMBDA b :
             With(IF At(s, b) = "[" THEN RangeClose(s, b + 1) ELSE 0, LAMBDA j :
             With(IF j > 0 THEN RunEnd(s, j + 1, SpaceChars) ELSE b, LAMBDA c :
             With(RunEnd(s, c, WordChars), LAMBDA e :
                  IF b > a /\ e > c
                  THEN [ok |-> TRUE, cap |-> SubSeq(s, c, e - 1), end |-> e]
                  ELSE NoMatch))))

\* A variant of the operator group without '&': a name used only as the left
\* operand of '&' would no longer count as used.
LogicOps_NoAnd == << "=", "<=", "==", "!=", "|", "^", "~", "+", "-", "*", "/", "%" >>

\* The alternatives of find_logic_usage's operator group, in the pattern's order.
LogicOps == << "=", "<=", "==", "!=", "&", "|", "^", "~", "+", "-", "*", "/", "%" >>

\* A variant of the operator group that sees blocking assignments only.
AssignOps_BlockingOnly == << "=" >>

\* The alternatives of find_assigned_variables' operator group.
AssignOps == << "<=", "=" >>

\* The first alternative of ops that matches at position k ("" if none).
RECURSIVE FirstOp(_, _, _, _)
FirstOp(s, k, ops, n) ==
    IF n > Len(ops) THEN ""
    ELSE IF MatchAt(s, k, ops[n]) THEN ops[n]
    ELSE FirstOp(s, k, ops, n + 1)

\* r'\b(\w+)\b\s*(?:op1|op2|...)' at position p.
WordOpMatch(s, p, ops) ==
    IF ~WordBoundary(s, p) \/ At(s, p) \notin WordChars THEN NoMatch
    ELSE With(RunEnd(s, p, WordChars), LAMBDA e :
         With(RunEnd(s, e, SpaceChars), LAMBDA k :
         With(FirstOp(s, k, ops, 1), LAMBDA op :
              IF op # ""
              THEN [ok |-> TRUE, cap |-> SubSeq(s, p, e - 1), end |-> k + Len(op)]
              ELSE NoMatch)))

\* The class [\w\[\]:].
RegNameChars == WordChars \cup {"[", "]", ":"}

\* r'\breg\b\s+([\w\[\]:]+)' at position p.
RegMatch(s, p) ==
    IF ~MatchAt(s, p, "reg") \/ ~WordBoundary(s, p) \/ ~WordBoundary(s, p + 3)
    THEN NoMatch
    ELSE With(RunEnd(s, p + 3, SpaceChars), LAMBDA b :
         With(RunEnd(s, b, RegNameChars), LAMBDA e :
              IF b > p + 3 /\ e > b
              THEN [ok |-> TRUE, cap |-> SubSeq(s, b, e - 1), end |-> e]
              ELSE NoMatch))

\* The group (begin.*?end|[^;]*;) at position q, with re.DOTALL: the text from
\* a 'begin' at q to the first 'end' after it, else the text up to the first ';'.
BodyAt(s, q) ==
    With(IF MatchAt(s, q, "begin") THEN IndexOf(s, "end", q + 5) ELSE 0, LAMBDA j :
         IF j > 0 THEN [ok |-> TRUE, cap |-> SubSeq(s, q, j + 2), end |-> j + 3]
         ELSE With(IndexOf(s, ";", q), LAMBDA k :
                   IF k > 0 THEN [ok |-> TRUE, cap |-> SubSeq(s, q, k), end |-> k + 1]
                   ELSE NoMatch))

BodyMatch(s, q) == With(q, LAMBDA q0 : BodyAt(s, q0))

\* comb_pattern, r'always\s*@\(\*\)\s*(begin.*?end|[^;]*;)', at position p.
CombMatch(s, p) ==
    IF ~MatchAt(s, p, "always") THEN NoMatch
    ELSE With(RunEnd(s, p + 6, SpaceChars), LAMBDA a :
              IF MatchAt(s, a, "@(*)")
              THEN BodyMatch(s, RunEnd(s, a + 4, SpaceChars))
              ELSE NoMatch)

\* The '.*?\)' of seq_pattern: the first ')' at or after j after which the
\* body group matches (0 if none).
SensClose(s, j) ==
    With({k \in j..Len(s) :
            /\ At(s, k) = ")"
            /\ BodyMatch(s, RunEnd(s, k + 1, SpaceChars)).ok}, LAMBDA hits :
         IF hits = {} THEN 0 ELSE SetMin(hits))

\* seq_pattern, r'always\s*@\(posedge.*?\)\s*(begin.*?end|[^;]*;)', at position p.
SeqMatch(s, p) ==
    IF ~MatchAt(s, p, "always") THEN NoMatch
    ELSE With(RunEnd(s, p + 6, SpaceChars), LAMBDA a :
              IF ~MatchAt(s, a, "@(posedge") THEN NoMatch
              ELSE With(SensClose(s, a + 9), LAMBDA j :
                        IF j > 0 THEN BodyMatch(s, RunEnd(s, j + 1, SpaceChars))
                        ELSE NoMatch))

\* r'\bword\b' at position p.
WholeWordMatch(s, p, word) ==
    IF /\ MatchAt(s, p, word)
       /\ WordBoundary(s, p)
       /\ WordBoundary(s, p + Len(word))
    THEN [ok |-> TRUE, cap |-> word, end |-> p + Len(word)]
    ELSE NoMatch

\* One attempt to match a pattern of the program at position p.
PatternMatch(pattern, s, p) ==
    CASE pattern = "ports"     -> PortMatch(s, p)
      [] pattern = "usage"     -> WordOpMatch(s, p, LogicOps)
      [] pattern = "assigned"  -> WordOpMatch(s, p, AssignOps)
      [] pattern = "regs"      -> RegMatch(s, p)
      [] pattern = "comb"      -> CombMatch(s, p)
      [] pattern = "seq"       -> SeqMatch(s, p)
      [] pattern = "module"    -> WholeWordMatch(s, p, "module")
      [] pattern = "endmodule" -> WholeWordMatch(s, p, "endmodule")

\* re.findall(pattern, s): the captures of the matches found scanning from
\* the left, each scan resuming where the match before it ended.  starts is
\* the set of positions at which an attempt matches; found[q] is what the
\* scan yields from the match that starts at q on.
re_findall(pattern, s) ==
    With({q \in 1..Len(s) : PatternMatch(pattern, s, q).ok}, LAMBDA starts :
         LET found[q \in starts] ==
                With(PatternMatch(pattern, s, q), LAMBDA m :
                With({r \in starts : r >= m.end}, LAMBDA later :
                     << m.cap >>
                     \o (IF later = {} THEN << >> ELSE found[SetMin(later)])))
         IN  IF starts = {} THEN << >> ELSE found[SetMin(starts)])

find_ports(file_content) == Range(re_findall("ports", file_content))

find_logic_usage(file_content) == Range(re_findall("usage", file_content))

find_assigned_variables(always_block) == Range(re_findall("assigned", always_block))

find_declared_regs(file_content) == Range(re_findall("regs", file_content))

\* find_blocks: re.findall(pattern, file_content, re.DOTALL), the bodies in
\* textual order.  kind selects the pattern analyze_always_blocks passes.
find_blocks(file_content, kind) == re_findall(kind, file_content)

\* The stripped lines that contain '<='.
RECURSIVE NonBlockingLines(_, _)
NonBlockingLines(lines, n) ==
    IF n > Len(lines) THEN << >>
    ELSE (IF Contains(lines[n], "<=") THEN << strip(lines[n]) >> ELSE << >>)
         \o NonBlockingLines(lines, n + 1)

\* The stripped lines with '=' in them and no '<='.
RECURSIVE BlockingLines(_, _)
BlockingLines(lines, n) ==
    IF n > Len(lines) THEN << >>
    ELSE (IF Contains(lines[n], "=") /\ ~Contains(lines[n], "<=")
          THEN << strip(lines[n]) >> ELSE << >>)
         \o BlockingLines(lines, n + 1)

\* A variant that reports the lines with a blocking '=' instead.
check_non_blocking_in_comb_Equals(always_block) ==
    With(splitlines(always_block), LAMBDA lines : BlockingLines(lines, 1))

\* check_non_blocking_in_comb: one entry per line that contains '<='.
check_non_blocking_in_comb(always_block) ==
    With(splitlines(always_block), LAMBDA lines : NonBlockingLines(lines, 1))

\* check_blocking_in_seq: one entry per line with '=' in it and no '<='.
check_blocking_in_seq(always_block) ==
    With(splitlines(always_block), LAMBDA lines : BlockingLines(lines, 1))

\* A variant that accepts a block with more 'begin' than 'end'.
match_begin_end_AtLeast(always_block) ==
    str_count(always_block, "begin") >= str_count(always_block, "end")

\* match_begin_end: the two substring counts are equal.
match_begin_end(always_block) ==
    str_count(always_block, "begin") = str_count(always_block, "end")

\* A variant without the word boundaries: it counts the 'module' of 'endmodule'.
module_count_Substring(file_content) == str_count(file_content, "module")

\* len(re.findall(r'\bmodule\b', file_content)).
module_count(file_content) == Len(re_findall("module", file_content))

\* len(re.findall(r'\bendmodule\b', file_content)).
endmodule_count(file_content) == Len(re_findall("endmodule", file_content))

(***************************************************************************)
(* The input files of the model: every concatenation of at most MaxChunks  *)
(* of these fragments of Verilog text.                                     *)
(***************************************************************************)
Fragments ==
    { "module m;\n",
      "endmodule\n",
      "input [1:0] a;\n",
      "output reg q;\n",
      "reg r;\nreg [1:0] s;\n",
      "always @(*) begin\n  q <= a;\n  r = a & q;\nend\n",
      "always @(*) send = a;\n",
      "always @(*) begin if (a) begin r = a; end end\n",
      "always @(posedge c) begin\n  q = a; r <= a;\n  q <= r;\n  s = q;\nend\n",
      "always @(posedge c) if (a) begin q <= a;\n" }

RECURSIVE TextsUpTo(_)
TextsUpTo(n) ==
    IF n = 0 THEN {""}
    ELSE LET shorter == TextsUpTo(n - 1)
         IN  shorter \cup {t \o f : t \in shorter, f \in Fragments}

Texts == TextsUpTo(MaxChunks)

\* The input files of the runs checked for progress.
FairTexts == TextsUpTo(MaxFairChunks)

\* What open(filename).read() can do.
LoadOutcomes == {"ok", "FileNotFoundError", "UnicodeDecodeError", "Exception"}

\* len(sys.argv) of the runs modelled.
ArgCounts == {1, 2, 3}

(***************************************************************************)
(* State.                                                                  *)
(***************************************************************************)
VARIABLES
    pc,                \* where the run of verilog_syntax_check.py is
    file_content,      \* the text read from the file
    out,               \* what was printed: findings and messages, in order
    executed,          \* the checks that have run, in order
    comb_blocks,       \* analyze_always_blocks: bodies of the always @(*) blocks
    seq_blocks,        \* analyze_always_blocks: bodies of the always @(posedge) blocks
    declared_regs,     \* analyze_always_blocks: find_declared_regs(file_content)
    ci,                \* combinational blocks handled so far
    si,                \* sequential blocks handled so far
    comb_errors,
    seq_errors,
    reg_errors,
    begin_end_errors,
    exit_status,       \* the process's exit status, -1 while it runs
    g_pc,              \* where process_data of analog_interface.py is
    table,             \* the table process_data was called with
    df,                \* process_data: its local df, the rows still considered
    g_row,             \* process_data: rows consumed by the first loop
    ports,             \* process_data: the ordered dict (base_name, direction) -> ranges
    g_grp,             \* process_data: groups consumed by the second loop
    verilog_ports,     \* process_data: the emitted lines
    stats,             \* process_data: stats["input"], stats["output"]
    ungenerated_ports  \* process_data: the 'pad' rows

chk_vars == << pc, file_content, out, executed, comb_blocks, seq_blocks,
               declared_regs, ci, si, comb_errors, seq_errors, reg_errors,
               begin_end_errors, exit_status >>

gen_vars == << g_pc, table, df, g_row, ports, g_grp, verilog_ports, stats,
               ungenerated_ports >>

vars == << chk_vars, gen_vars >>

\* One printed item.  block is 0 for what belongs to no block.
Msg(cat, kind, block, detail) ==
    [cat |-> cat, kind |-> kind, block |-> block, detail |-> detail]

\* One executed check.
Ran(check, kind, block) == [check |-> check, kind |-> kind, block |-> block]

ChkInit ==
    /\ pc = "start"
    /\ file_content = ""
    /\ out = << >>
    /\ executed = << >>
    /\ comb_blocks = << >>
    /\ seq_blocks = << >>
    /\ declared_regs = {}
    /\ ci = 0
    /\ si = 0
    /\ comb_errors = 0
    /\ seq_errors = 0
    /\ reg_errors = 0
    /\ begin_end_errors = 0
    /\ exit_status = -1

(***************************************************************************)
(* verilog_syntax_check.py, one action per step of the run.                *)
(***************************************************************************)

\* __main__ with len(sys.argv) != 2: the usage line and sys.exit(1).
Usage ==
    /\ pc = "start"
    /\ \E argc \in ArgCounts :
          /\ argc # 2
          /\ out' = << Msg("Usage", "", 0, "") >>
    /\ pc' = "exited"
    /\ exit_status' = 1
    /\ UNCHANGED << file_content, executed, comb_blocks, seq_blocks,
                    declared_regs, ci, si, comb_errors, seq_errors,
                    reg_errors, begin_end_errors, gen_vars >>

\* run_verilog_syntax_check: open and read the file.  A failure is caught by
\* one of the except clauses, which prints a message; the function then returns.
Load(texts) ==
    /\ pc = "start"
    /\ \E argc \in ArgCounts, outcome \in LoadOutcomes :
          /\ argc = 2
          /\ IF outcome = "ok"
             THEN \E text \in texts :
                     /\ file_content' = text
                     /\ out' = << Msg("Checking", "", 0, "") >>
                     /\ pc' = "loaded"
             ELSE /\ file_content' = file_content
                  /\ out' = << Msg("LoadError", "", 0, outcome) >>
                  /\ pc' = "returned"
    /\ UNCHANGED << executed, comb_blocks, seq_blocks, declared_regs, ci, si,
                    comb_errors, seq_errors, reg_errors, begin_end_errors,
                    exit_status, gen_vars >>

\* check_port_usage: one warning naming the ports that are not used, if any.
unused_ports(file_content_) ==
    find_ports(file_content_) \ find_logic_usage(file_content_)

\* A variant without the  if unused_ports:  test.
PortWarning_Always(unused) == << Msg("UnusedPort", "", 0, unused) >>

PortWarning(unused) ==
    IF unused # {} THEN << Msg("UnusedPort", "", 0, unused) >> ELSE << >>

CheckPortUsage ==
    /\ pc = "loaded"
    /\ out' = out \o PortWarning(unused_ports(file_content))
    /\ executed' = Append(executed, Ran("port_usage", "", 0))
    /\ pc' = "ports_checked"
    /\ UNCHANGED << file_content, comb_blocks, seq_blocks, declared_regs, ci,
                    si, comb_errors, seq_errors, reg_errors, begin_end_errors,
                    exit_status, gen_vars >>

\* check_module_endmodule: an error with both counts when they differ, an
\* informational line when they agree.
ModuleReport(n_module, n_endmodule) ==
    IF n_module # n_endmodule
    THEN << Msg("MismatchedModuleEndmodule", "", 0, << n_module, n_endmodule >>) >>
    ELSE << Msg("Info", "", 0, "") >>

CheckModuleEndmodule ==
    /\ pc = "ports_checked"
    /\ out' = out \o ModuleReport(module_count(file_content),
                                  endmodule_count(file_content))
    /\ executed' = Append(executed, Ran("module_endmodule", "", 0))
    /\ pc' = "modules_checked"
    /\ UNCHANGED << file_content, comb_blocks, seq_blocks, declared_regs, ci,
                    si, comb_errors, seq_errors, reg_errors, begin_end_errors,
                    exit_status, gen_vars >>

\* Where analyze_always_blocks goes with nc of the combinational and ns of the
\* sequential blocks handled: the first loop, the second loop, the summary.
LoopPc(nc, ns, combs, seqs) ==
    IF nc < Len(combs) THEN "comb_loop"
    ELSE IF ns < Len(seqs) THEN "seq_loop"
    ELSE "summary"

\* analyze_always_blocks up to its first loop: the blocks, the declared
\* registers, the counters.
AnalyzeStart ==
    /\ pc = "modules_checked"
    /\ LET combs == find_blocks(file_content, "comb")
           seqs  == find_blocks(file_content, "seq")
       IN  /\ comb_blocks' = combs
           /\ seq_blocks' = seqs
           /\ pc' = LoopPc(0, 0, combs, seqs)
    /\ declared_regs' = find_declared_regs(file_content)
    /\ ci' = 0
    /\ si' = 0
    /\ comb_errors' = 0
    /\ seq_errors' = 0
    /\ reg_errors' = 0
    /\ begin_end_errors' = 0
    /\ UNCHANGED << file_content, out, executed, exit_status, gen_vars >>

\* The begin-end test both loops make.
BeginEndMismatch(block) == Contains(block, "begin") /\ ~match_begin_end(block)

\* The lines a loop iteration prints for block number i of a kind: the
\* begin-end error, one item per offending line (under one header naming the
\* block), the undeclared-register error.
BlockOutput(kind, i, block, errors, undefined_vars) ==
    (IF BeginEndMismatch(block)
     THEN << Msg("MismatchedBeginEnd", kind, i, "") >> ELSE << >>)
    \o [n \in 1..Len(errors) |->
          Msg(IF kind = "comb" THEN "NonBlockingInComb" ELSE "BlockingInSeq",
              kind, i, errors[n])]
    \o (IF undefined_vars # {}
        THEN << Msg("UndeclaredRegAssignment", kind, i, undefined_vars) >>
        ELSE << >>)

\* The checks one loop iteration runs.
BlockChecks(kind, i) ==
    << Ran("begin_end", kind, i), Ran("assignment", kind, i),
       Ran("register", kind, i) >>

\* A variant of the comb iteration that gives up the run at the first block
\* with a finding.
CombBlock_StopOnFinding ==
    /\ pc = "comb_loop"
    /\ ci < Len(comb_blocks)
    /\ LET i              == ci + 1
           block          == comb_blocks[i]
           errors         == check_non_blocking_in_comb(block)
           undefined_vars == find_assigned_variables(block) \ declared_regs
           found          == BlockOutput("comb", i, block, errors, undefined_vars)
       IN  /\ out' = out \o found
           /\ begin_end_errors' =
                 begin_end_errors + (IF BeginEndMismatch(block) THEN 1 ELSE 0)
           /\ comb_errors' = comb_errors + Len(errors)
           /\ reg_errors' = reg_errors + Cardinality(undefined_vars)
           /\ executed' = executed \o BlockChecks("comb", i)
           /\ ci' = i
           /\ pc' = IF found # << >> THEN "returned"
                    ELSE LoopPc(i, si, comb_blocks, seq_blocks)
    /\ UNCHANGED << file_content, comb_blocks, seq_blocks, declared_regs, si,
                    seq_errors, exit_status, gen_vars >>

\* One iteration of  for i, block in enumerate(comb_blocks, 1).
CombBlock ==
    /\ pc = "comb_loop"
    /\ ci < Len(comb_blocks)
    /\ LET i              == ci + 1
           block          == comb_blocks[i]
           errors         == check_non_blocking_in_comb(block)
           undefined_vars == find_assigned_variables(block) \ declared_regs
       IN  /\ out' = out \o BlockOutput("comb", i, block, errors, undefined_vars)
           /\ begin_end_errors' =
                 begin_end_errors + (IF BeginEndMismatch(block) THEN 1 ELSE 0)
           /\ comb_errors' = comb_errors + Len(errors)
           /\ reg_errors' = reg_errors + Cardinality(undefined_vars)
           /\ executed' = executed \o BlockChecks("comb", i)
           /\ ci' = i
           /\ pc' = LoopPc(i, si, comb_blocks, seq_blocks)
    /\ UNCHANGED << file_content, comb_blocks, seq_blocks, declared_regs, si,
                    seq_errors, exit_status, gen_vars >>

\* One iteration of  for i, block in enumerate(seq_blocks, 1).
SeqBlock ==
    /\ pc = "seq_loop"
    /\ si < Len(seq_blocks)
    /\ LET i              == si + 1
           block          == seq_blocks[i]
           errors         == check_blocking_in_seq(block)
           undefined_vars == find_assigned_variables(block) \ declared_regs
       IN  /\ out' = out \o BlockOutput("seq", i, block, errors, undefined_vars)
           /\ begin_end_errors' =
                 begin_end_errors + (IF BeginEndMismatch(block) THEN 1 ELSE 0)
           /\ seq_errors' = seq_errors + Len(errors)
           /\ reg_errors' = reg_errors + Cardinality(undefined_vars)
           /\ executed' = executed \o BlockChecks("seq", i)
           /\ si' = i
           /\ pc' = LoopPc(ci, i, comb_blocks, seq_blocks)
    /\ UNCHANGED << file_content, comb_blocks, seq_blocks, declared_regs, ci,
                    comb_errors, exit_status, gen_vars >>

\* The summary analyze_always_blocks ends with.
Summary ==
    /\ pc = "summary"
    /\ out' = Append(out, Msg("Summary", "", 0,
                 << Len(comb_blocks), Len(seq_blocks), comb_errors, seq_errors,
                    reg_errors, begin_end_errors >>))
    /\ pc' = "analyzed"
    /\ UNCHANGED << file_content, executed, comb_blocks, seq_blocks,
                    declared_regs, ci, si, comb_errors, seq_errors, reg_errors,
                    begin_end_errors, exit_status, gen_vars >>

\* run_verilog_syntax_check prints its last line and returns.
Complete ==
    /\ pc = "analyzed"
    /\ out' = Append(out, Msg("Completed", "", 0, ""))
    /\ pc' = "returned"
    /\ UNCHANGED << file_content, executed, comb_blocks, seq_blocks,
                    declared_regs, ci, si, comb_errors, seq_errors, reg_errors,
                    begin_end_errors, exit_status, gen_vars >>

\* The script ends after run_verilog_syntax_check returned: nothing sets an
\* exit status, so the interpreter exits with 0.
ProcessExit ==
    /\ pc = "returned"
    /\ pc' = "exited"
    /\ exit_status' = 0
    /\ UNCHANGED << file_content, out, executed, comb_blocks, seq_blocks,
                    declared_regs, ci, si, comb_errors, seq_errors, reg_errors,
                    begin_end_errors, gen_vars >>

ChkNext ==
    \/ Usage
    \/ Load(Texts)
    \/ CheckPortUsage
    \/ CheckModuleEndmodule
    \/ AnalyzeStart
    \/ CombBlock
    \/ SeqBlock
    \/ Summary
    \/ Complete
    \/ ProcessExit

(***************************************************************************)
(* analog_interface.py: process_data.                                      *)
(***************************************************************************)

\* direction_map.get(code, "input").
direction_of(from_to) ==
    CASE from_to = "CA" -> "output"
      [] from_to = "AC" -> "input"
      [] from_to = "RA" -> "output"
      [] from_to = "AR" -> "input"
      [] OTHER -> "input"

\* Python's str.split(sep) for a one-character sep.
RECURSIVE SplitOnFrom(_, _, _)
SplitOnFrom(s, sep, i) ==
    LET j == IndexOf(s, sep, i)
    IN  IF j = 0 THEN << SubSeq(s, i, Len(s)) >>
        ELSE << SubSeq(s, i, j - 1) >> \o SplitOnFrom(s, sep, j + 1)

str_split(s, sep) == SplitOnFrom(s, sep, 1)

\* Python's str.strip(">").
RECURSIVE LastNot(_, _, _)
LastNot(s, j, ch) == IF j >= 1 /\ At(s, j) = ch THEN LastNot(s, j - 1, ch) ELSE j

strip_char(s, ch) ==
    LET a == RunEnd(s, 1, {ch})
        b == LastNot(s, Len(s), ch)
    IN  IF a > b THEN "" ELSE SubSeq(s, a, b)

Digits == << "0", "1", "2", "3", "4", "5", "6", "7", "8", "9" >>

DigitVal(c) == (CHOOSE d \in 1..10 : Digits[d] = c) - 1

\* int(s) succeeds on a string of decimal digits; on the other strings of the
\* model (empty, letters) it raises ValueError.
IsInt(s) == Len(s) > 0 /\ \A i \in 1..Len(s) : At(s, i) \in Range(Digits)

RECURSIVE IntOfPrefix(_, _)
IntOfPrefix(s, n) ==
    IF n = 0 THEN 0 ELSE 10 * IntOfPrefix(s, n - 1) + DigitVal(At(s, n))

int(s) == IntOfPrefix(s, Len(s))

\* str(n) of an f-string, n >= 0.
RECURSIVE str(_)
str(n) == IF n < 10 THEN Digits[n + 1] ELSE str(n \div 10) \o Digits[(n % 10) + 1]

\* Lines 36-47: what one row's PortName adds to its group.  ok is FALSE where
\* the code raises (the unpacking of split("<") or of split(":"), int()).
\* rng is << >> for None and << start, end >> for a bit range, as written.
parse_port_name(port_name) ==
    IF ~Contains(port_name, "<")
    THEN [ok |-> TRUE, base |-> port_name, rng |-> << >>]
    ELSE LET halves == str_split(port_name, "<")
         IN  IF Len(halves) # 2 THEN [ok |-> FALSE, base |-> "", rng |-> << >>]
             ELSE LET range_part == strip_char(halves[2], ">")
                      nums       == str_split(range_part, ":")
                  IN  IF Contains(range_part, ":")
                      THEN IF Len(nums) = 2 /\ IsInt(nums[1]) /\ IsInt(nums[2])
                           THEN [ok |-> TRUE, base |-> halves[1],
                                 rng |-> << int(nums[1]), int(nums[2]) >>]
                           ELSE [ok |-> FALSE, base |-> "", rng |-> << >>]
                      ELSE IF IsInt(range_part)
                           THEN [ok |-> TRUE, base |-> halves[1],
                                 rng |-> << int(range_part), int(range_part) >>]
                           ELSE [ok |-> FALSE, base |-> "", rng |-> << >>]

\* ports[(base_name, direction)].append(rng) on the insertion-ordered dict.
dict_append(d, base, direction, rng) ==
    IF \E k \in 1..Len(d) : d[k].base = base /\ d[k].direction = direction
    THEN [k \in 1..Len(d) |->
            IF d[k].base = base /\ d[k].direction = direction
            THEN [d[k] EXCEPT !.ranges = Append(@, rng)]
            ELSE d[k]]
    ELSE Append(d, [base |-> base, direction |-> direction, ranges |-> << rng >>])

\* Lines 52-59: the line of one group.
port_line(g) ==
    LET given == {k \in 1..Len(g.ranges) : g.ranges[k] # << >>}
    IN  IF given = {} THEN g.direction \o " " \o g.base
        ELSE LET min_bit == SetMin({g.ranges[k][2] : k \in given})
                 max_bit == SetMax({g.ranges[k][1] : k \in given})
             IN  g.direction \o " [" \o str(max_bit) \o ":" \o str(min_bit)
                 \o "] " \o g.base

\* The rows of the model's tables.
PortNames == {"d", "d<3:0>", "d<0:7>", "d<5>", "e<1:0>", "d<x>"}

Types == {"pad", "signal"}

FromToCodes == {"CA", "AC", "XX"}

Rows == [PortName : PortNames, Type : Types, FromTo : FromToCodes]

RECURSIVE TablesUpTo(_)
TablesUpTo(n) ==
    IF n = 0 THEN {<< >>}
    ELSE LET shorter == TablesUpTo(n - 1)
         IN  shorter \cup {Append(t, r) : t \in shorter, r \in Rows}

Tables == TablesUpTo(MaxRows)

GenIdle ==
    /\ g_pc = "idle"
    /\ table = << >>
    /\ df = << >>
    /\ g_row = 0
    /\ ports = << >>
    /\ g_grp = 0
    /\ verilog_ports = << >>
    /\ stats = [input |-> 0, output |-> 0]
    /\ ungenerated_ports = << >>

\* process_data is entered with a table.
GenInit ==
    /\ g_pc = "filter"
    /\ table \in Tables
    /\ df = table
    /\ g_row = 0
    /\ ports = << >>
    /\ g_grp = 0
    /\ verilog_ports = << >>
    /\ stats = [input |-> 0, output |-> 0]
    /\ ungenerated_ports = << >>

IsPad(row) == row.Type = "pad"

NotPad(row) == row.Type # "pad"

\* Lines 23-30: the 'pad' rows are set aside, the others kept.
FilterPad ==
    /\ g_pc = "filter"
    /\ ungenerated_ports' = SelectSeq(df, IsPad)
    /\ df' = SelectSeq(df, NotPad)
    /\ g_pc' = IF SelectSeq(df, NotPad) = << >> THEN "returned" ELSE "rows"
    /\ UNCHANGED << table, g_row, ports, g_grp, verilog_ports, stats, chk_vars >>

\* One iteration of  for _, row in df.iterrows()  that raises nothing.
ProcessRow ==
    /\ g_pc = "rows"
    /\ g_row < Len(df)
    /\ LET row == df[g_row + 1]
           r   == parse_port_name(row.PortName)
       IN  /\ r.ok
           /\ ports' = dict_append(ports, r.base, direction_of(row.FromTo), r.rng)
    /\ g_row' = g_row + 1
    /\ g_pc' = IF g_row + 1 = Len(df) THEN "groups" ELSE "rows"
    /\ UNCHANGED << table, df, g_grp, verilog_ports, stats, ungenerated_ports,
                    chk_vars >>

\* An iteration that raises: process_data is left without a result.
RowRaises ==
    /\ g_pc = "rows"
    /\ g_row < Len(df)
    /\ ~parse_port_name(df[g_row + 1].PortName).ok
    /\ g_pc' = "raised"
    /\ UNCHANGED << table, df, g_row, ports, g_grp, verilog_ports, stats,
                    ungenerated_ports, chk_vars >>

\* One iteration of  for (base_name, direction), ranges in ports.items().
MergeGroup ==
    /\ g_pc = "groups"
    /\ g_grp < Len(ports)
    /\ LET g == ports[g_grp + 1]
       IN  /\ verilog_ports' = Append(verilog_ports, port_line(g))
           /\ stats' = [stats EXCEPT ![g.direction] = @ + 1]
    /\ g_grp' = g_grp + 1
    /\ g_pc' = IF g_grp + 1 = Len(ports) THEN "returned" ELSE "groups"
    /\ UNCHANGED << table, df, g_row, ports, ungenerated_ports, chk_vars >>

GenNext ==
    \/ FilterPad
    \/ ProcessRow
    \/ RowRaises
    \/ MergeGroup

(***************************************************************************)
(* Specifications.                                                         *)
(***************************************************************************)
Init == ChkInit /\ GenIdle

Next == ChkNext

\* One run of verilog_syntax_check.py.
Spec == Init /\ [][Next]_vars

\* The run of a single-threaded program that is never suspended for ever:
\* whatever step is possible is eventually taken.  The text read is one of
\* FairTexts.
FairNext ==
    \/ Usage
    \/ Load(FairTexts)
    \/ CheckPortUsage
    \/ CheckModuleEndmodule
    \/ AnalyzeStart
    \/ CombBlock
    \/ SeqBlock
    \/ Summary
    \/ Complete
    \/ ProcessExit

FairSpec == Init /\ [][FairNext]_vars /\ WF_vars(FairNext)

\* One call of process_data of analog_interface.py.
GInit == ChkInit /\ GenInit

GenSpec == GInit /\ [][GenNext]_vars

(***************************************************************************)
(* What the claims speak of, stated over positions of the text rather than *)
(* by scanning it.                                                         *)
(***************************************************************************)

\* The run read its file, ran, and has ended.
Finished == pc = "exited" /\ out # << >> /\ out[1].cat = "Checking"

\* The run could not read its file, and has ended.
LoadFailed == pc = "exited" /\ out # << >> /\ out[1].cat = "LoadError"

\* The printed items of a category for block i of a kind, in order.
Findings(cat, kind, i) ==
    SelectSeq(out, LAMBDA m : m.cat = cat /\ m.kind = kind /\ m.block = i)

\* All printed items of a category.
AllFindings(cat) == SelectSeq(out, LAMBDA m : m.cat = cat)

\* The elements of a set of integers in increasing order.
RECURSIVE SortedSeq(_)
SortedSeq(S) ==
    IF S = {} THEN << >> ELSE << SetMin(S) >> \o SortedSeq(S \ {SetMin(S)})

\* The sum of f[1] .. f[n].
RECURSIVE SumTo(_, _)
SumTo(f, n) == IF n = 0 THEN 0 ELSE f[n] + SumTo(f, n - 1)

\* Number of occurrences of a marker in a body.
Occurrences(body, marker) ==
    Cardinality({p \in 1..Len(body) : MatchAt(body, p, marker)})

\* Positions where a line of the body starts, and the line that starts there.
LineStarts(body) == {p \in 1..Len(body) : p = 1 \/ At(body, p - 1) = "\n"}

LineAt(body, p) ==
    LET nl == IndexOf(body, "\n", p)
    IN  SubSeq(body, p, IF nl = 0 THEN Len(body) ELSE nl - 1)

\* The line holds the delayed-assignment token.
HasNonBlocking(line) == \E k \in 1..Len(line) : MatchAt(line, k, "<=")

\* The line holds an '=' that is not the '=' of a '<='.
HasFreeEquals(line) ==
    \E k \in 1..Len(line) : At(line, k) = "=" /\ At(line, k - 1) # "<"

\* Whole-word occurrences of a keyword in the text.
WholeWords(text, word) ==
    Cardinality({p \in 1..Len(text) :
                   /\ MatchAt(text, p, word)
                   /\ At(text, p - 1) \notin WordChars
                   /\ At(text, p + Len(word)) \notin WordChars})

\* The tokens the spec calls assignment/operator tokens.
OperatorTokens == {"=", "<=", "==", "!=", "&", "|", "^", "~", "+", "-", "*", "/", "%"}

\* The identifier name stands, as a whole word, immediately before one of the
\* tokens (white space apart) somewhere in the text.
AppearsBefore(text, name, tokens) ==
    \E p \in 1..Len(text) :
       /\ MatchAt(text, p, name)
       /\ At(text, p - 1) \notin WordChars
       /\ At(text, p + Len(name)) \notin WordChars
       /\ \E t \in tokens :
             MatchAt(text, RunEnd(text, p + Len(name), SpaceChars), t)

\* The identifiers of a body that stand immediately before '=' or '<='.
AssignmentTargets(body) ==
    {SubSeq(body, p, RunEnd(body, p, WordChars) - 1) :
        p \in {q \in 1..Len(body) :
                 /\ At(body, q) \in WordChars
                 /\ At(body, q - 1) \notin WordChars
                 /\ LET k == RunEnd(body, RunEnd(body, q, WordChars), SpaceChars)
                    IN  At(body, k) = "=" \/ MatchAt(body, k, "<=")}}

\* The bodies of a kind, as the run captured them.
BlocksOf(kind) == IF kind = "comb" THEN comb_blocks ELSE seq_blocks

Kinds == {"comb", "seq"}

(***************************************************************************)
(* Claims.                                                                 *)
(***************************************************************************)

\* The blocks of a kind whose body holds N 'begin' and M 'end' with N # M.
Unbalanced(kind) ==
    {i \in 1..Len(BlocksOf(kind)) :
        Occurrences(BlocksOf(kind)[i], "begin") # Occurrences(BlocksOf(kind)[i], "end")}

\* Those of them whose body holds a 'begin' at all.
UnbalancedWithBegin(kind) ==
    {i \in Unbalanced(kind) : Occurrences(BlocksOf(kind)[i], "begin") >= 1}

\* The blocks of a kind for which a begin-end error was printed, each once.
BeginEndReported(kind, flagged) ==
    \A i \in 1..Len(BlocksOf(kind)) :
       Len(Findings("MismatchedBeginEnd", kind, i)) = IF i \in flagged THEN 1 ELSE 0

\* C1 as stated: for every captured body, with N 'begin' and M 'end', a
\* mismatched begin-end error is printed for the block, and the begin-end
\* error count raised by one, if and only if N # M.
C1_BeginEndIffCountsDiffer ==
    Finished =>
      /\ \A kind \in Kinds : BeginEndReported(kind, Unbalanced(kind))
      /\ begin_end_errors =
            Cardinality(Unbalanced("comb")) + Cardinality(Unbalanced("seq"))

\* C1 as amended: for every captured body, with N 'begin' and M 'end', a
\* mismatched begin-end error is printed for the block, and the begin-end
\* error count raised by one, if and only if N >= 1 and N # M; a body without
\* 'begin' is never reported.
C1_BeginEndIffBeginAndCountsDiffer ==
    Finished =>
      /\ \A kind \in Kinds : BeginEndReported(kind, UnbalancedWithBegin(kind))
      /\ Len(AllFindings("MismatchedBeginEnd")) = begin_end_errors
      /\ begin_end_errors =
            Cardinality(UnbalancedWithBegin("comb"))
            + Cardinality(UnbalancedWithBegin("seq"))

\* A finished run with a reported block of each kind and a block that holds
\* 'end' but no 'begin' and is not reported.
C1_Witness ==
    /\ Finished
    /\ UnbalancedWithBegin("comb") # {}
    /\ UnbalancedWithBegin("seq") # {}
    /\ Unbalanced("comb") \ UnbalancedWithBegin("comb") # {}
    /\ begin_end_errors = 2

\* The lines of block i of a kind that satisfy Test, in textual order.
LinesWith(kind, i, Test(_)) ==
    LET body == BlocksOf(kind)[i]
        hits == SortedSeq({p \in LineStarts(body) : Test(LineAt(body, p))})
    IN  [n \in 1..Len(hits) |-> LineAt(body, hits[n])]

\* C2: for every sequential body exactly one blocking-assignment error is
\* printed per line that holds an '=' which is not part of a '<=' (a line with
\* both a blocking '=' and a '<=' included), none for any other line, and the
\* sequential error total is the number of such lines over all sequential blocks.
C2_BlockingPerFreeEqualsLine ==
    Finished =>
      /\ \A i \in 1..Len(seq_blocks) :
            Len(Findings("BlockingInSeq", "seq", i))
               = Len(LinesWith("seq", i, HasFreeEquals))
      /\ seq_errors =
            SumTo([i \in 1..Len(seq_blocks) |-> Len(LinesWith("seq", i, HasFreeEquals))],
                  Len(seq_blocks))

\* C3: for every combinational body exactly one non-blocking error is printed
\* per line that holds '<=', in textual order and naming the stripped line,
\* none for the other lines; each carries the block's 1-based index among the
\* combinational blocks; the combinational error total is the sum over the
\* blocks of their numbers of such lines.
C3_NonBlockingPerLine ==
    Finished =>
      /\ \A i \in 1..Len(comb_blocks) :
            LET found == Findings("NonBlockingInComb", "comb", i)
                lines == LinesWith("comb", i, HasNonBlocking)
            IN  /\ Len(found) = Len(lines)
                /\ \A n \in 1..Len(found) : found[n].detail = strip(lines[n])
      /\ \A n \in 1..Len(out) :
            out[n].cat = "NonBlockingInComb" =>
               out[n].kind = "comb" /\ out[n].block \in 1..Len(comb_blocks)
      /\ comb_errors = Len(AllFindings("NonBlockingInComb"))
      /\ comb_errors =
            SumTo([i \in 1..Len(comb_blocks) |-> Len(LinesWith("comb", i, HasNonBlocking))],
                  Len(comb_blocks))

\* A finished run with two combinational blocks, the second of which has an
\* offending line next to a clean one, reported under index 2.
C3_Witness ==
    /\ Finished
    /\ Len(comb_blocks) = 2
    /\ Len(Findings("NonBlockingInComb", "comb", 2)) = 1
    /\ Len(splitlines(comb_blocks[2])) > 2
    /\ comb_errors >= 1

\* The set the unused-port warning names ({} when none was printed).
UnusedReported ==
    IF AllFindings("UnusedPort") = << >> THEN {}
    ELSE AllFindings("UnusedPort")[1].detail

\* C4: a declared port (the identifier find_ports captures after input or
\* output and an optional bracketed range) is in the unused-port warning's set
\* if and only if it never stands immediately before an assignment/operator
\* token anywhere in the text; the warning is printed, once, only when that
\* set is not empty, and it names declared ports only.
C4_UnusedPortsExactly ==
    Finished =>
      /\ Len(AllFindings("UnusedPort")) <= 1
      /\ Len(AllFindings("UnusedPort")) = 1 => UnusedReported # {}
      /\ UnusedReported \subseteq find_ports(file_content)
      /\ \A p \in find_ports(file_content) :
            p \in UnusedReported <=> ~AppearsBefore(file_content, p, OperatorTokens)

\* A finished run with a declared port that is used (and so not named) and
\* one that is not used (and named).
C4_Witness ==
    /\ Finished
    /\ UnusedReported # {}
    /\ find_ports(file_content) \ UnusedReported # {}

\* The categories of findings.
FindingCategories ==
    {"UnusedPort", "NonBlockingInComb", "BlockingInSeq", "UndeclaredRegAssignment",
     "MismatchedBeginEnd", "MismatchedModuleEndmodule"}

\* The six numbers of the printed summary.
SummaryNumbers == AllFindings("Summary")[1].detail

NoPortsNoBlocks ==
    /\ Finished
    /\ find_ports(file_content) = {}
    /\ comb_blocks = << >>
    /\ seq_blocks = << >>

\* C5 as stated: a text with no port declaration and no procedural block
\* yields no finding of any category and a summary of zeros.
C5_NothingDeclaredNothingFound ==
    NoPortsNoBlocks =>
      /\ \A n \in 1..Len(out) : out[n].cat \notin FindingCategories
      /\ SummaryNumbers = << 0, 0, 0, 0, 0, 0 >>

\* C5 as amended: a text with no port declaration and no procedural block
\* yields no finding of any category other than the module/endmodule
\* mismatch, and a summary of zeros; the module/endmodule mismatch is still
\* reported, exactly when the two whole-word counts differ.
C5_NothingDeclaredOnlyModuleFinding ==
    NoPortsNoBlocks =>
      /\ \A n \in 1..Len(out) :
            out[n].cat \notin FindingCategories \ {"MismatchedModuleEndmodule"}
      /\ SummaryNumbers = << 0, 0, 0, 0, 0, 0 >>
      /\ (AllFindings("MismatchedModuleEndmodule") # << >>)
            <=> (WholeWords(file_content, "module")
                   # WholeWords(file_content, "endmodule"))

\* A finished run on a text with register declarations and module keywords
\* but no port and no block, with the mismatch reported.
C5_Witness ==
    /\ NoPortsNoBlocks
    /\ declared_regs # {}
    /\ AllFindings("MismatchedModuleEndmodule") # << >>

\* What block i of a kind assigns and the file does not declare.
Undeclared(kind, i) == AssignmentTargets(BlocksOf(kind)[i]) \ declared_regs

OffendingBlocks(kind) == {i \in 1..Len(BlocksOf(kind)) : Undeclared(kind, i) # {}}

\* One undeclared-register error per offending block, naming the remainder.
UndeclaredReported ==
    \A kind \in Kinds : \A i \in 1..Len(BlocksOf(kind)) :
       LET found == Findings("UndeclaredRegAssignment", kind, i)
       IN  /\ Len(found) = IF Undeclared(kind, i) # {} THEN 1 ELSE 0
           /\ Len(found) = 1 => found[1].detail = Undeclared(kind, i)

\* C6 as stated: an undeclared-register error is printed for a block if and
\* only if (identifiers immediately before '=' or '<=' in its body) minus (the
\* declared-register set, as raw captured strings) is not empty, it names
\* exactly that remainder, and exactly one is counted per offending block.
C6_UndeclaredOnePerBlock ==
    Finished =>
      /\ UndeclaredReported
      /\ reg_errors =
            Cardinality(OffendingBlocks("comb")) + Cardinality(OffendingBlocks("seq"))

\* C6 as amended: the same error, printed once per offending block and naming
\* exactly the remainder; the undeclared-register count grows by the number
\* of names in the remainder, not by one.
C6_UndeclaredCountsNames ==
    Finished =>
      /\ UndeclaredReported
      /\ Len(AllFindings("UndeclaredRegAssignment")) =
            Cardinality(OffendingBlocks("comb")) + Cardinality(OffendingBlocks("seq"))
      /\ reg_errors =
            SumTo([i \in 1..Len(comb_blocks) |-> Cardinality(Undeclared("comb", i))],
                  Len(comb_blocks))
            + SumTo([i \in 1..Len(seq_blocks) |-> Cardinality(Undeclared("seq", i))],
                    Len(seq_blocks))

\* A finished run with a plain and a ranged register declaration, a block
\* whose remainder has one name of its two targets, and a block with none.
C6_Witness ==
    /\ Finished
    /\ "r" \in declared_regs
    /\ "[1:0]" \in declared_regs
    /\ \E kind \in Kinds : \E i \in OffendingBlocks(kind) :
          /\ Cardinality(Undeclared(kind, i)) = 1
          /\ Cardinality(AssignmentTargets(BlocksOf(kind)[i])) = 2
    /\ \E kind \in Kinds :
          (1..Len(BlocksOf(kind))) \ OffendingBlocks(kind) # {}

\* C7: check_module_endmodule prints exactly one mismatch error, with both
\* counts, if and only if the whole-word count of 'module' differs from that
\* of 'endmodule', and none when they are equal.
C7_ModuleMismatchIffCountsDiffer ==
    Finished =>
      LET m     == WholeWords(file_content, "module")
          e     == WholeWords(file_content, "endmodule")
          found == AllFindings("MismatchedModuleEndmodule")
      IN  /\ Len(found) = IF m # e THEN 1 ELSE 0
          /\ Len(found) = 1 => found[1].detail = << m, e >>

\* A finished run on a text with two 'module' and one 'endmodule': one error
\* with the counts 2 and 1.
C7_Witness ==
    /\ Finished
    /\ WholeWords(file_content, "module") = 2
    /\ WholeWords(file_content, "endmodule") = 1
    /\ Len(AllFindings("MismatchedModuleEndmodule")) = 1
    /\ AllFindings("MismatchedModuleEndmodule")[1].detail = << 2, 1 >>

\* The checks a complete run on the text makes, in order.
ChecksOf(text) ==
    LET combs == find_blocks(text, "comb")
        seqs  == find_blocks(text, "seq")
        per(kind, n) == [k \in 1..(3 * n) |->
                           Ran(<< "begin_end", "assignment", "register" >>[((k - 1) % 3) + 1],
                               kind, ((k - 1) \div 3) + 1)]
    IN  << Ran("port_usage", "", 0), Ran("module_endmodule", "", 0) >>
        \o per("comb", Len(combs)) \o per("seq", Len(seqs))

\* Every check has run on every block and the summary is printed.
AllChecksRun ==
    /\ pc = "exited"
    /\ executed = ChecksOf(file_content)
    /\ Len(AllFindings("Summary")) = 1
    /\ Len(AllFindings("Completed")) = 1

\* C8: in every run that loaded its text, every check (port usage,
\* module/endmodule, and per block of either kind the begin-end, assignment
\* and register checks) is eventually run and the summary printed, whatever
\* was found on the way.
C8_AllChecksEventuallyRun == (pc = "loaded") ~> AllChecksRun

\* A complete run in which the first block was reported twice over and a
\* later block was still checked.
C8_Witness ==
    /\ AllChecksRun
    /\ Findings("MismatchedBeginEnd", "comb", 1) # << >>
    /\ Findings("UndeclaredRegAssignment", "comb", 1) # << >>
    /\ Len(comb_blocks) + Len(seq_blocks) >= 2

\* C9: when opening or reading the file fails, a message is printed, the
\* process ends with a non-zero exit status, and no check has run.
C9_LoadFailureExitsNonZero ==
    LoadFailed =>
      /\ Len(AllFindings("LoadError")) = 1
      /\ executed = << >>
      /\ exit_status # 0

\* The rows of the table whose type is not 'pad'.
KeptRows == {table[k] : k \in {j \in 1..Len(table) : table[j].Type # "pad"}}

\* The base name of a port name: the text before its '<', if it has one.
BaseName(port_name) ==
    IF Contains(port_name, "<")
    THEN SubSeq(port_name, 1, IndexOf(port_name, "<", 1) - 1)
    ELSE port_name

\* The bit numbers a port name's suffix gives, in whatever order.
BitsOf(port_name) == Range(parse_port_name(port_name).rng)

\* The groups of the kept rows: (base name, mapped direction).
GroupsOf(rows) == {<< BaseName(r.PortName), direction_of(r.FromTo) >> : r \in rows}

\* The line the claim gives a group: the highest and the lowest bit over all
\* the ranges of the group.
ClaimedLine(rows, g) ==
    LET bits == UNION {BitsOf(r.PortName) :
                         r \in {x \in rows : << BaseName(x.PortName),
                                                direction_of(x.FromTo) >> = g}}
    IN  IF bits = {} THEN g[2] \o " " \o g[1]
        ELSE g[2] \o " [" \o str(SetMax(bits)) \o ":" \o str(SetMin(bits))
             \o "] " \o g[1]

\* C10: process_data drops the 'pad' rows, groups the others by (base name,
\* mapped direction) with an unmapped code mapped to 'input', emits exactly
\* one line per group, '<direction> [<high>:<low>] <base_name>' with the
\* highest high bit and the lowest low bit of the group's ranges whatever
\* order the two numbers of a suffix are written in, or '<direction>
\* <base_name>' for a group without a range; and stats['input'] +
\* stats['output'] is the number of lines.
C10_OneLinePerGroupWithMergedRange ==
    g_pc = "returned" =>
      /\ Len(verilog_ports) = Cardinality(GroupsOf(KeptRows))
      /\ Range(verilog_ports) = {ClaimedLine(KeptRows, g) : g \in GroupsOf(KeptRows)}
      /\ stats["input"] + stats["output"] = Len(verilog_ports)

====
